---- MODULE Spec2Model ----
(***************************************************************************)
(* qutebrowser/keyinput/keyparser.py: CommandKeyParser.execute and the     *)
(* PassthroughKeyParser (handle, clear_keystring), which passes an         *)
(* unmatched key chain through to the focused window by re-posting it.     *)
(*                                                                         *)
(* The inherited chain matcher (BaseKeyParser) and keyutils are not part   *)
(* of keyparser.py; they are modelled from the specification: a matcher    *)
(* over a fixed set of bindings with its own chain buffer.                 *)
(***************************************************************************)
EXTENDS Integers, Sequences, FiniteSets, TLC

\* ---------------------------------------------------------------- bounds
\* size of a configuration: the keys of all its bound chains together
MaxBindKeys == 3
\* user key events are accepted while at most this many posted events wait
MaxPending == 4
\* the count of real handle calls since the last replay stops at this value,
\* which also stands for "no replay so far"
MaxSinceReplay == 2

\* ------------------------------------------------------------- universes
Keys == {"j", "k"}
ModifierKeys == {"Shift"}
AllKeys == Keys \cup ModifierKeys
None == "None"
Windows == {"w1"}
NoMatch == "NoMatch"
PartialMatch == "PartialMatch"
ExactMatch == "ExactMatch"
KeyPress == "KeyPress"
KeyRelease == "KeyRelease"
Commands == {"cmd"}
Counts == {None, "2"}
\* what CommandRunner.run does: returns, raises cmdexc.Error, raises another exception
RunOutcomes == {"ok", "cmdexc.Error", "Exception"}

\* the key chains of exactly n keys
RECURSIVE ChainsOfLen(_)
ChainsOfLen(n) ==
    IF n = 0 THEN {<<>>}
    ELSE {Append(s, k) : s \in ChainsOfLen(n - 1), k \in Keys}

\* the sets of bound chains that have at most n keys together
RECURSIVE ConfigsUpTo(_)
ConfigsUpTo(n) ==
    {{}} \cup UNION {{T \cup {c} : T \in ConfigsUpTo(n - m), c \in ChainsOfLen(m)} :
                     m \in 1..n}

\* the configurations _read_config may load
BindingSets == ConfigsUpTo(MaxBindKeys)

VARIABLES
    bindings,          \* the mode's bindings, loaded once by _read_config
    _orig_sequence,    \* PassthroughKeyParser._orig_sequence
    _ignore_next_key,  \* PassthroughKeyParser._ignore_next_key
    _sequence,         \* the inherited matcher's own chain buffer
    queue,             \* events posted with QApplication.postEvent, not yet processed
    since_replay,      \* real handle calls since the last replay, capped (history)
    last               \* what the last call did (history)

vars == <<bindings, _orig_sequence, _ignore_next_key, _sequence, queue,
          since_replay, last>>

\* ------------------------------------------------------ keyutils (spec)
is_modifier_key(key) == key \in ModifierKeys

\* KeySequence.append_event: a new sequence, the receiver is not changed
append_event(seq, e) == Append(seq, e)

\* KeyInfo.to_event
to_event(keyinfo, typ, window) == [receiver |-> window, type |-> typ, key |-> keyinfo]

\* ------------------------------------------ inherited chain matcher (spec)
IsPrefix(s, t) == Len(s) <= Len(t) /\ SubSeq(t, 1, Len(s)) = s

\* classify a chain against the bindings
match_key(B, chain) ==
    IF chain \in B THEN ExactMatch
    ELSE IF \E b \in B : IsPrefix(chain, b) THEN PartialMatch
    ELSE NoMatch

\* BaseKeyParser.clear_keystring: resets the matcher's chain buffer
base_clear_keystring(seq) == <<>>

\* ------------------------------------------------- CommandKeyParser.execute
\* the calls made to the runner and to message.error, and whether an
\* exception leaves the method; outcome is what CommandRunner.run does
\* variant: the command error is not caught
execute_mut_nocatch(cmdstr, count, outcome) ==
    [runner_calls |-> <<[cmdstr |-> cmdstr, count |-> count]>>,
     messages     |-> <<>>,
     raised       |-> outcome # "ok"]

execute(cmdstr, count, outcome) ==
    [runner_calls |-> <<[cmdstr |-> cmdstr, count |-> count]>>,
     messages     |-> IF outcome = "cmdexc.Error" THEN <<"error">> ELSE <<>>,
     raised       |-> outcome = "Exception"]

\* -------------------------------------- PassthroughKeyParser.clear_keystring
\* the result: the two buffers and how often the base reset was invoked
\* variant: the base reset is called only when the buffer was non-empty
clear_keystring_mut_guarded(orig, seq) ==
    IF orig # <<>>
    THEN [orig |-> <<>>, seq |-> base_clear_keystring(seq), base_clears |-> 1]
    ELSE [orig |-> orig, seq |-> seq, base_clears |-> 0]

\* variant: the original sequence is not reset
clear_keystring_mut_keep(orig, seq) ==
    [orig |-> orig, seq |-> base_clear_keystring(seq), base_clears |-> 1]

clear_keystring(orig, seq) ==
    [orig        |-> IF orig # <<>> THEN <<>> ELSE orig,
     seq         |-> base_clear_keystring(seq),
     base_clears |-> 1]

\* ------------------------------------------ BaseKeyParser.handle (spec)
\* the matcher's verdict for the chain so far plus e; on a real pass a
\* PartialMatch keeps the chain, ExactMatch and NoMatch reset it through
\* self.clear_keystring(), which is the override above
base_handle(B, e, dry_run, orig, seq) ==
    LET chain == append_event(seq, e)
        m     == match_key(B, chain)
        c     == clear_keystring(orig, seq)
    IN  IF dry_run
        THEN [match |-> m, orig |-> orig, seq |-> seq, clears |-> 0, base_clears |-> 0]
        ELSE IF m = PartialMatch
        THEN [match |-> m, orig |-> orig, seq |-> chain, clears |-> 0, base_clears |-> 0]
        ELSE [match |-> m, orig |-> c.orig, seq |-> c.seq, clears |-> 1,
              base_clears |-> c.base_clears]

\* ------------------------------------------- PassthroughKeyParser.handle
\* line 95: the key is skipped without consulting the matcher
\* (variant: the flag is not looked at)
SkipKey_mut_modonly(key, ignore) == is_modifier_key(key)

SkipKey(key, ignore) == is_modifier_key(key) \/ ignore

\* line 96: the flag after a skipped key
\* (variant: a dry run clears the flag too)
SkipFlag_mut_clear(ignore, dry_run) == FALSE

\* (variant: a dry run sets the flag)
SkipFlag_mut_dry(ignore, dry_run) == dry_run

\* (variant: the flag is never consumed)
SkipFlag_mut_keep(ignore, dry_run) == ignore

SkipFlag(ignore, dry_run) == ignore /\ dry_run

\* line 102: the scratch sequence is committed
\* (variant: committed on every real call)
CommitOrig_mut_anymatch(dry_run, match) == ~dry_run

\* (variant: committed on a dry run too)
CommitOrig_mut_dry(dry_run, match) == match = PartialMatch

CommitOrig(dry_run, match) == ~dry_run /\ match = PartialMatch

\* line 105: the matcher's verdict is returned as it is
\* (variant: no test for a one-key chain)
ReturnMatch_mut_nolen(dry_run, scratch, match) == dry_run \/ match # NoMatch

\* (variant: the one-key test looks at the buffer before the event)
ReturnMatch_mut_buffer(dry_run, scratch, match) ==
    dry_run \/ Len(scratch) = 2 \/ match # NoMatch

\* (variant: no test for a dry run)
ReturnMatch_mut_nodry(dry_run, scratch, match) ==
    Len(scratch) = 1 \/ match # NoMatch

ReturnMatch(dry_run, scratch, match) ==
    dry_run \/ Len(scratch) = 1 \/ match # NoMatch

\* line 109: no window has the focus
\* (variant: the focus is not tested)
NoWindow_mut_never(window) == FALSE

NoWindow(window) == window = None

\* lines 113-117: the events posted for the chain, in posting order
\* (variant: release posted before press)
RECURSIVE ReplayEvents_mut_release_first(_, _)
ReplayEvents_mut_release_first(scratch, window) ==
    IF scratch = <<>> THEN <<>>
    ELSE <<to_event(Head(scratch), KeyRelease, window),
           to_event(Head(scratch), KeyPress, window)>>
         \o ReplayEvents_mut_release_first(Tail(scratch), window)

RECURSIVE ReplayEvents(_, _)
ReplayEvents(scratch, window) ==
    IF scratch = <<>> THEN <<>>
    ELSE <<to_event(Head(scratch), KeyPress, window),
           to_event(Head(scratch), KeyRelease, window)>>
         \o ReplayEvents(Tail(scratch), window)

\* line 119: the verdict of a replaying call
\* (variant: the matcher's verdict is returned)
ReplayResult_mut_match(match) == match

ReplayResult(match) == ExactMatch

\* the whole method: the state it leaves and what it did
handle(B, e, dry_run, window, orig, ignore, seq) ==
    IF SkipKey(e, ignore)
    THEN [orig |-> orig, ignore |-> SkipFlag(ignore, dry_run), seq |-> seq,
          result |-> NoMatch, posted |-> <<>>, consulted |-> FALSE,
          match |-> None, clears |-> 0, base_clears |-> 0]
    ELSE
      LET scratch == append_event(orig, e)
          b       == base_handle(B, e, dry_run, orig, seq)
          orig2   == IF CommitOrig(dry_run, b.match) THEN scratch ELSE b.orig
          quiet   == [orig |-> orig2, ignore |-> ignore, seq |-> b.seq,
                      result |-> b.match, posted |-> <<>>, consulted |-> TRUE,
                      match |-> b.match, clears |-> b.clears,
                      base_clears |-> b.base_clears]
      IN  IF ReturnMatch(dry_run, scratch, b.match) THEN quiet
          ELSE IF NoWindow(window) THEN quiet
          ELSE [quiet EXCEPT !.ignore = TRUE,
                             !.posted = ReplayEvents(scratch, window),
                             !.result = ReplayResult(b.match)]

\* ------------------------------------------------------------ the machine
NoCall ==
    [op |-> "init", source |-> None, key |-> None, dry_run |-> FALSE,
     window |-> None, pre_orig |-> <<>>, pre_ignore |-> FALSE, pre_seq |-> <<>>,
     consulted |-> FALSE, match |-> None, result |-> None, posted |-> <<>>,
     clears |-> 0, base_clears |-> 0,
     cmdstr |-> None, count |-> None, outcome |-> None,
     runner_calls |-> <<>>, messages |-> <<>>, raised |-> FALSE]

Init ==
    /\ bindings \in BindingSets
    /\ _orig_sequence = <<>>
    /\ _ignore_next_key = FALSE
    /\ _sequence = <<>>
    /\ queue = <<>>
    /\ since_replay = MaxSinceReplay
    /\ last = NoCall

\* one call of handle with event key e, whoever makes it
HandleCall(source, e, dry_run, window, q) ==
    LET h == handle(bindings, e, dry_run, window,
                    _orig_sequence, _ignore_next_key, _sequence)
    IN  /\ _orig_sequence' = h.orig
        /\ _ignore_next_key' = h.ignore
        /\ _sequence' = h.seq
        /\ queue' = q \o h.posted
        /\ since_replay' = IF dry_run THEN since_replay
                           ELSE IF h.posted # <<>> THEN 0
                           ELSE IF since_replay < MaxSinceReplay
                                THEN since_replay + 1
                                ELSE since_replay
        /\ last' = [NoCall EXCEPT !.op = "handle", !.source = source, !.key = e,
                       !.dry_run = dry_run, !.window = window,
                       !.pre_orig = _orig_sequence,
                       !.pre_ignore = _ignore_next_key,
                       !.pre_seq = _sequence,
                       !.consulted = h.consulted, !.match = h.match,
                       !.result = h.result, !.posted = h.posted,
                       !.clears = h.clears, !.base_clears = h.base_clears]
        /\ UNCHANGED bindings

\* a key press of the user reaches handle; the focused window is whatever
\* the toolkit reports at that moment
HandleKey ==
    \E e \in AllKeys, window \in Windows \cup {None} :
        /\ Len(queue) <= MaxPending
        /\ HandleCall("user", e, FALSE, window, queue)

\* the mode manager probes a key with a dry run
HandleDryRun ==
    \E e \in AllKeys, window \in Windows \cup {None} :
        HandleCall("user", e, TRUE, window, queue)

\* the event loop processes the oldest posted event: a press comes back to
\* handle, a release does not concern the key parser
ProcessPress ==
    /\ queue # <<>>
    /\ Head(queue).type = KeyPress
    /\ \E window \in Windows \cup {None} :
           HandleCall("posted", Head(queue).key, FALSE, window, Tail(queue))

ProcessRelease ==
    /\ queue # <<>>
    /\ Head(queue).type = KeyRelease
    /\ queue' = Tail(queue)
    /\ UNCHANGED <<bindings, _orig_sequence, _ignore_next_key, _sequence,
                   since_replay, last>>

\* (variant of the action below: the reset also drops the flag)
ClearKeystring_mut_resetflag ==
    LET c == clear_keystring(_orig_sequence, _sequence)
    IN  /\ _orig_sequence' = c.orig
        /\ _sequence' = c.seq
        /\ _ignore_next_key' = FALSE
        /\ last' = [NoCall EXCEPT !.op = "clear_keystring",
                       !.pre_orig = _orig_sequence,
                       !.pre_ignore = _ignore_next_key,
                       !.pre_seq = _sequence,
                       !.clears = 1, !.base_clears = c.base_clears]
        /\ UNCHANGED <<bindings, queue, since_replay>>

\* the chain times out or is cleared explicitly (the command a binding runs
\* goes through execute, which touches none of the parser's attributes and
\* is modelled as the separate action Execute)
ClearKeystring ==
    LET c == clear_keystring(_orig_sequence, _sequence)
    IN  /\ _orig_sequence' = c.orig
        /\ _sequence' = c.seq
        /\ last' = [NoCall EXCEPT !.op = "clear_keystring",
                       !.pre_orig = _orig_sequence,
                       !.pre_ignore = _ignore_next_key,
                       !.pre_seq = _sequence,
                       !.clears = 1, !.base_clears = c.base_clears]
        /\ UNCHANGED <<bindings, _ignore_next_key, queue, since_replay>>

\* a command is executed
Execute ==
    \E cmdstr \in Commands, count \in Counts, outcome \in RunOutcomes :
        LET x == execute(cmdstr, count, outcome)
        IN  /\ last' = [NoCall EXCEPT !.op = "execute",
                           !.cmdstr = cmdstr, !.count = count,
                           !.outcome = outcome,
                           !.runner_calls = x.runner_calls,
                           !.messages = x.messages, !.raised = x.raised]
            /\ UNCHANGED <<bindings, _orig_sequence, _ignore_next_key,
                           _sequence, queue, since_replay>>

Next ==
    \/ HandleKey
    \/ HandleDryRun
    \/ ProcessPress
    \/ ProcessRelease
    \/ ClearKeystring
    \/ Execute

Spec == Init /\ [][Next]_vars

\* ------------------------------------------- a typed chain, then its replay
\* the user types a chain; once a chain has been replayed no further key is
\* typed and the event loop alone runs, feeding the posted presses back
NothingReplayedYet == queue = <<>> /\ last.source # "posted"

TypeKey ==
    \E e \in AllKeys, window \in Windows \cup {None} :
        /\ NothingReplayedYet
        /\ HandleCall("user", e, FALSE, window, queue)

NextReplay ==
    \/ TypeKey
    \/ ProcessPress
    \/ ProcessRelease

\* the event loop processes every posted event
SpecReplay ==
    /\ Init
    /\ [][NextReplay]_vars
    /\ WF_vars(ProcessPress)
    /\ WF_vars(ProcessRelease)

TypeOK ==
    /\ bindings \in BindingSets
    /\ _ignore_next_key \in BOOLEAN
    /\ Len(_orig_sequence) < MaxBindKeys
    /\ Len(_sequence) < MaxBindKeys
\* ----------------------------------------------------------------- claims
\* the key chain the last handle call looked at: the buffer plus its event
Chain == Append(last.pre_orig, last.key)

\* the last call was a real handle call that the matcher answered
Consulted(m) ==
    /\ last.op = "handle"
    /\ ~last.dry_run
    /\ last.consulted
    /\ last.match = m

\* ... with NoMatch for a chain of at least two keys
MultiKeyNoMatch == Consulted(NoMatch) /\ Len(last.pre_orig) >= 1

\* C1: a real handle call with base result NoMatch, a chain of n >= 2 keys and
\* a focused window posts exactly 2n events to that window: press and release
\* of every key of the chain, the current key included, in the order typed.
C1_ReplayContentOrder ==
    (MultiKeyNoMatch /\ last.window # None) =>
        /\ Len(last.posted) = 2 * Len(Chain)
        /\ \A i \in 1..Len(Chain) :
            /\ last.posted[2 * i - 1] =
                   [receiver |-> last.window, type |-> KeyPress, key |-> Chain[i]]
            /\ last.posted[2 * i] =
                   [receiver |-> last.window, type |-> KeyRelease, key |-> Chain[i]]

\* 'j' then 'k' unmatched: press-j, release-j, press-k, release-k
C1_Witness ==
    /\ MultiKeyNoMatch
    /\ last.window = "w1"
    /\ Chain = <<"j", "k">>
    /\ last.posted = <<[receiver |-> "w1", type |-> KeyPress, key |-> "j"],
                       [receiver |-> "w1", type |-> KeyRelease, key |-> "j"],
                       [receiver |-> "w1", type |-> KeyPress, key |-> "k"],
                       [receiver |-> "w1", type |-> KeyRelease, key |-> "k"]>>

\* C2: a replaying call returns ExactMatch instead of the matcher's NoMatch and
\* leaves the IgnoreNextKey flag set.
C2_ReplayVerdict ==
    (MultiKeyNoMatch /\ last.window # None) =>
        /\ last.result = ExactMatch
        /\ _ignore_next_key

C2_Witness ==
    /\ MultiKeyNoMatch
    /\ last.window # None
    /\ Len(Chain) = 3
    /\ last.result = ExactMatch
    /\ last.posted # <<>>

\* C3: a dry run leaves the buffered original sequence and the IgnoreNextKey
\* flag as they were and posts no event, whatever the matcher answers.
C3_DryRunNoEffect ==
    (last.op = "handle" /\ last.dry_run) =>
        /\ _orig_sequence = last.pre_orig
        /\ _ignore_next_key = last.pre_ignore
        /\ last.posted = <<>>

\* a dry run while the flag is set
C3_Witness ==
    /\ last.op = "handle"
    /\ last.dry_run
    /\ last.pre_ignore
    /\ _ignore_next_key

\* C4: a modifier key, and any real call made while the flag is set, is
\* answered NoMatch without consulting the matcher, changing the buffer or
\* posting an event.
C4_SkipPath ==
    (/\ last.op = "handle"
     /\ is_modifier_key(last.key) \/ (~last.dry_run /\ last.pre_ignore)) =>
        /\ last.result = NoMatch
        /\ _orig_sequence = last.pre_orig
        /\ ~last.consulted
        /\ last.posted = <<>>

\* a real, non-modifier key arriving while the flag is set
C4_Witness ==
    /\ last.op = "handle"
    /\ ~last.dry_run
    /\ last.pre_ignore
    /\ ~is_modifier_key(last.key)
    /\ last.result = NoMatch

\* C5: a real call with an empty buffer whose key has no binding returns the
\* matcher's NoMatch, posts nothing and leaves the flag false, with or without
\* a focused window.
C5_OneKeyNoReplay ==
    (/\ last.op = "handle"
     /\ ~last.dry_run
     /\ last.pre_orig = <<>>
     /\ match_key(bindings, <<last.key>>) = NoMatch) =>
        /\ last.result = NoMatch
        /\ last.consulted => last.match = NoMatch
        /\ last.posted = <<>>
        /\ ~_ignore_next_key

\* an unbound single key while a window has the focus
C5_Witness ==
    /\ Consulted(NoMatch)
    /\ last.pre_orig = <<>>
    /\ last.window # None
    /\ last.result = NoMatch

\* C6: without a focused window an unmatched multi-key chain is not replayed:
\* no event, flag not set, the matcher's NoMatch returned.
C6_NoWindowNoReplay ==
    (MultiKeyNoMatch /\ last.window = None) =>
        /\ last.posted = <<>>
        /\ ~_ignore_next_key
        /\ last.result = NoMatch

C6_Witness ==
    /\ MultiKeyNoMatch
    /\ last.window = None
    /\ last.result = NoMatch

\* C7: clear_keystring leaves the buffered original sequence empty and always
\* invokes the matcher's own chain reset, also when it runs inside handle.
C7_ClearKeystring ==
    /\ last.op = "clear_keystring" =>
           /\ _orig_sequence = <<>>
           /\ _sequence = <<>>
           /\ last.base_clears = 1
    /\ last.base_clears = last.clears

\* clear_keystring called while a chain is buffered
C7_Witness ==
    /\ last.op = "clear_keystring"
    /\ last.pre_orig # <<>>
    /\ _orig_sequence = <<>>

\* C8: execute calls the runner once with the command string and count; a
\* command error is reported once through the message service and not raised;
\* a successful run reports nothing.
C8_ExecuteCatches ==
    last.op = "execute" =>
        /\ last.runner_calls = <<[cmdstr |-> last.cmdstr, count |-> last.count]>>
        /\ last.outcome = "cmdexc.Error" =>
               (Len(last.messages) = 1 /\ ~last.raised)
        /\ last.outcome = "ok" =>
               (last.messages = <<>> /\ ~last.raised)

C8_Witness ==
    /\ last.op = "execute"
    /\ last.outcome = "cmdexc.Error"
    /\ Len(last.messages) = 1

\* C9: after a replaying call the buffered original sequence is empty.
C9_ReplayEmptiesBuffer ==
    (MultiKeyNoMatch /\ last.posted # <<>>) => _orig_sequence = <<>>

C9_Witness ==
    /\ MultiKeyNoMatch
    /\ last.posted # <<>>
    /\ Len(last.pre_orig) = 2
    /\ _orig_sequence = <<>>

\* C10: the buffered original sequence grows only in a real call answered
\* PartialMatch, and then by the current event at its end; no other call
\* makes it longer.
C10_GrowsOnlyOnPartial ==
    /\ Consulted(PartialMatch) => _orig_sequence = Append(last.pre_orig, last.key)
    /\ (last.op \in {"handle", "clear_keystring"} /\ ~Consulted(PartialMatch)) =>
           Len(_orig_sequence) <= Len(last.pre_orig)

\* a second key joins a buffered chain
C10_Witness ==
    /\ Consulted(PartialMatch)
    /\ last.pre_orig = <<"j">>
    /\ _orig_sequence = <<"j", "k">>
\* C11 as stated: a call made with exactly one event in the buffer returns
\* the matcher's result as it is and replays nothing.
C11_OneBufferedNoReplay ==
    (last.op = "handle" /\ last.consulted /\ Len(last.pre_orig) = 1) =>
        /\ last.result = last.match
        /\ last.posted = <<>>
        /\ ~_ignore_next_key

\* C11 amended: a call whose chain, the current event included, holds exactly
\* one event (the buffer was empty) returns the matcher's result as it is and
\* replays nothing, also for a real NoMatch with a focused window.
C11_OneKeyChainNoReplay ==
    (last.op = "handle" /\ last.consulted /\ Len(Chain) = 1) =>
        /\ last.result = last.match
        /\ last.posted = <<>>
        /\ ~_ignore_next_key

C11_Witness ==
    /\ Consulted(NoMatch)
    /\ Len(Chain) = 1
    /\ last.window = "w1"
    /\ last.key = "k"
    /\ last.posted = <<>>

\* C12: a consulted call answered PartialMatch or ExactMatch, and every dry
\* run, returns the matcher's verdict, posts nothing and does not set the
\* flag; a call that posts events is a real call answered NoMatch for a chain
\* of at least two keys with a focused window; the verdict differs from the
\* matcher's only in such a call.
C12_VerdictChangedOnlyByReplay ==
    last.op = "handle" =>
        /\ (last.consulted /\ (last.match \in {PartialMatch, ExactMatch} \/ last.dry_run)) =>
               /\ last.result = last.match
               /\ last.posted = <<>>
               /\ ~_ignore_next_key
        /\ last.dry_run =>
               /\ last.posted = <<>>
               /\ _ignore_next_key => last.pre_ignore
        /\ last.posted # <<>> =>
               /\ ~last.dry_run
               /\ last.consulted
               /\ last.match = NoMatch
               /\ Len(Chain) >= 2
               /\ last.window # None
        /\ (last.consulted /\ last.result # last.match) => last.posted # <<>>

\* a dry run of a key that would be replayed in a real call
C12_Witness ==
    /\ last.op = "handle"
    /\ last.dry_run
    /\ last.consulted
    /\ last.match = NoMatch
    /\ Len(Chain) >= 2
    /\ last.window # None
    /\ last.result = NoMatch

\* C13: a dry run made while the flag is set returns NoMatch and leaves it
\* set, a dry run never sets the flag, and the flag is dropped only by a real
\* handle call.
C13_FlagSurvivesDryRuns ==
    /\ []((last.op = "handle" /\ last.dry_run) =>
            /\ last.pre_ignore => (last.result = NoMatch /\ _ignore_next_key)
            /\ ~last.pre_ignore => ~_ignore_next_key)
    /\ [][(_ignore_next_key /\ ~_ignore_next_key') =>
            (last'.op = "handle" /\ ~last'.dry_run /\ last'.pre_ignore)]_vars

\* a dry run of a bound key while the flag is set
C13_Witness ==
    /\ last.op = "handle"
    /\ last.dry_run
    /\ last.pre_ignore
    /\ match_key(bindings, <<last.key>>) = ExactMatch
    /\ last.result = NoMatch
    /\ _ignore_next_key

\* C14: the first real call after a replay finds the flag set, returns
\* NoMatch and leaves the flag false; every other real call with a
\* non-modifier key (the second after the replay in particular) is delegated
\* to the matcher.
C14_OneKeySuppressed ==
    (last.op = "handle" /\ ~last.dry_run) =>
        /\ since_replay = 0 <=> last.posted # <<>>
        /\ since_replay = 1 =>
               /\ last.pre_ignore
               /\ last.result = NoMatch
               /\ ~last.consulted
               /\ ~_ignore_next_key
        /\ (since_replay # 1 /\ ~is_modifier_key(last.key)) => last.consulted

\* the second replayed key, handled by the matcher
C14_Witness ==
    /\ last.op = "handle"
    /\ ~last.dry_run
    /\ last.source = "posted"
    /\ since_replay = 2
    /\ last.consulted

\* C16: the buffered original sequence is as long as the matcher's own chain
\* buffer in every reachable state.
C16_BuffersConsistent == Len(_orig_sequence) = Len(_sequence)

C16_Witness ==
    /\ Consulted(PartialMatch)
    /\ Len(_orig_sequence) = 2
    /\ Len(_sequence) = 2

\* C18: clear_keystring leaves the flag as it was, and a real handle call
\* that directly follows a reset made with the flag set is answered NoMatch
\* without consulting the matcher.
C18_ClearKeepsFlag ==
    /\ [](last.op = "clear_keystring" => _ignore_next_key = last.pre_ignore)
    /\ [][(/\ last.op = "clear_keystring"
           /\ last.pre_ignore
           /\ last'.op = "handle"
           /\ ~last'.dry_run) =>
              (last'.result = NoMatch /\ ~last'.consulted)]_vars

C18_Witness ==
    /\ last.op = "clear_keystring"
    /\ last.pre_ignore
    /\ _ignore_next_key
\* C15: every posted key press that is fed back to handle is answered NoMatch,
\* so that it reaches the widget: none is consumed as an ExactMatch or
\* buffered again as a PartialMatch.
C15_ReplayedKeysReachWidget ==
    (last.op = "handle" /\ last.source = "posted") => last.result = NoMatch

\* the posted key presses waiting in the queue plus the buffered keys
PendingKeys ==
    Cardinality({i \in DOMAIN queue : queue[i].type = KeyPress}) + Len(_orig_sequence)

\* C17: with the posted presses fed back in queue order and no further key
\* typed, the queue becomes empty again; meanwhile the number of pending plus
\* buffered keys never grows, and the key ignored after each replay lowers it.
C17_ReplayTerminates ==
    /\ (queue # <<>>) ~> (queue = <<>>)
    /\ [][queue # <<>> => PendingKeys' <= PendingKeys]_vars
    /\ [][(queue # <<>> /\ _ignore_next_key /\ Head(queue).type = KeyPress) =>
            PendingKeys' < PendingKeys]_vars

\* a replayed key that ends a chain which is replayed in turn
C17_Witness ==
    /\ last.op = "handle"
    /\ last.source = "posted"
    /\ last.posted # <<>>
    /\ _ignore_next_key
====
